---- MODULE Spec2Model ----
(***************************************************************************)
(* Model of the gold pre-market report builder (src/src/build_report.py,   *)
(* src/src/indicators.py, src/src/news.py).                                *)
(*                                                                         *)
(* Numbers.  The program computes with float64.  A float is modelled as a  *)
(* one-element tuple <<n>> holding the value in units of 1/Scale (fixed    *)
(* point, divisions round towards minus infinity), and NaN as the empty    *)
(* tuple <<>>.  Prices are multiples of Scale.                             *)
(*                                                                         *)
(* enrich_indicators is applied to frames without null prices, which is    *)
(* what main hands it after dropna.                                        *)
(*                                                                         *)
(* Text.  A Python str is modelled as a tuple of one-character strings, so *)
(* that lower(), the whitespace clean-up and the substring test `k in t`   *)
(* are computed character by character.                                    *)
(***************************************************************************)
EXTENDS Integers, Sequences, FiniteSets, TLC

VARIABLES
    pc,         \* position of the run (main, or the function under call)
    df,         \* the price frame: a sequence of OHLC rows, oldest first
    runs,       \* number of row blocks the price provider has delivered
    source,     \* download_prices' source name
    log,        \* side effects of main that have happened, in order
    enriched,   \* the frame returned by enrich_indicators
    limit,      \* NEWS_LIMIT
    feed,       \* fetch_news_rss: index of the next feed to parse
    items,      \* fetch_news_rss: items collected so far
    path,       \* which function produced `news`: "newsapi", "rss" or "arg"
    news,       \* the news list handed to traffic_light_logic
    result,     \* what traffic_light_logic returned
    error       \* the exception that ended the run, "" when none

vars ==
    <<pc, df, runs, source, log, enriched, limit, feed, items, path, news, result, error>>

----------------------------------------------------------------------------
(* Bounds of the model *)

Scale == 1000

MaxRuns == 3

MaxLen == 52

MaxEntries == 2

MaxLimit == 2

BasePrice == 100

----------------------------------------------------------------------------
(* float64 values *)

NaN == <<>>

IsNaN(x) == x = <<>>

F(n) == <<n>>

V(x) == x[1]

Max2(a, b) == IF a >= b THEN a ELSE b

AbsInt(a) == IF a < 0 THEN -a ELSE a

\* a - b, NaN when either operand is NaN
FSub(a, b) == IF IsNaN(a) \/ IsNaN(b) THEN NaN ELSE F(V(a) - V(b))

\* |a|
FAbs(a) == IF IsNaN(a) THEN NaN ELSE F(AbsInt(V(a)))

\* a / b; callers replace a zero divisor by NaN first
FDiv(a, b) == IF IsNaN(a) \/ IsNaN(b) THEN NaN ELSE F((V(a) * Scale) \div V(b))

\* comparisons are False when an operand is NaN
FGt(a, b) == ~IsNaN(a) /\ ~IsNaN(b) /\ V(a) > V(b)

FLt(a, b) == ~IsNaN(a) /\ ~IsNaN(b) /\ V(a) < V(b)

FGe(a, b) == ~IsNaN(a) /\ ~IsNaN(b) /\ V(a) >= V(b)

FLe(a, b) == ~IsNaN(a) /\ ~IsNaN(b) /\ V(a) <= V(b)

\* DataFrame.max(axis=1): the largest value that is not NaN
RowMax(xs) ==
    LET d == {i \in 1..Len(xs) : ~IsNaN(xs[i])}
    IN  IF d = {} THEN NaN
        ELSE xs[CHOOSE i \in d : \A j \in d : V(xs[i]) >= V(xs[j])]

\* a pandas Series (or the rows of a DataFrame) holds its values: the entries of f
\* are computed once, when the Series is built
Series(f) == <<>> \o f

Column(frame, name) == Series([i \in 1..Len(frame) |-> frame[i][name]])

----------------------------------------------------------------------------
(* pandas Series operations used by indicators.py *)

RECURSIVE SumRange(_, _, _)
SumRange(xs, a, b) == IF a > b THEN 0 ELSE V(xs[a]) + SumRange(xs, a + 1, b)

\* Series.diff(): the first entry has no predecessor
Diff(xs) == Series([i \in 1..Len(xs) |-> IF i = 1 THEN NaN ELSE FSub(xs[i], xs[i - 1])])

\* Series.shift(1)
Shift1(xs) == Series([i \in 1..Len(xs) |-> IF i = 1 THEN NaN ELSE xs[i - 1]])

\* faulty variant: a window centred on i takes in the next point when there is one
RollingMeanAhead(xs, w) ==
    Series([i \in 1..Len(xs) |->
        LET hi == IF i < Len(xs) THEN i + 1 ELSE i
        IN  IF hi < w \/ \E j \in (hi - w + 1)..hi : IsNaN(xs[j]) THEN NaN
            ELSE F(SumRange(xs, hi - w + 1, hi) \div w)])

\* Series.rolling(w).mean(): mean of the w entries ending at i, NaN while fewer
\* than w entries exist or when one of them is NaN
RollingMean(xs, w) ==
    Series([i \in 1..Len(xs) |->
        IF i < w \/ \E j \in (i - w + 1)..i : IsNaN(xs[j]) THEN NaN
        ELSE F(SumRange(xs, i - w + 1, i) \div w)])

\* Series.bfill(): a NaN entry takes the next entry that is not NaN, if any
Bfill(xs) ==
    Series([i \in 1..Len(xs) |->
        LET later == {j \in i..Len(xs) : ~IsNaN(xs[j])}
        IN  IF later = {} THEN NaN
            ELSE xs[CHOOSE j \in later : \A k \in later : j <= k]])

RECURSIVE EwmFrom(_, _, _)
EwmFrom(xs, span, acc) ==
    IF Len(acc) = Len(xs) THEN acc
    ELSE LET i == Len(acc) + 1
             y == IF i = 1 THEN xs[1]
                  ELSE F(((span - 1) * V(acc[i - 1]) + 2 * V(xs[i])) \div (span + 1))
         IN  EwmFrom(xs, span, Append(acc, y))

\* ema: ewm(span, adjust=False).mean(), y[1] = x[1],
\* y[i] = (1 - a) y[i-1] + a x[i] with a = 2 / (span + 1)
ema(xs, span) == EwmFrom(xs, span, <<>>)

----------------------------------------------------------------------------
(* indicators.py *)

RsiPeriod == 14

AtrPeriod == 14

MaFast == 20

MaSlow == 50

MacdFast == 12

MacdSlow == 26

MacdSignal == 9

\* delta.where(delta > 0, 0.0)
Gains(delta) ==
    Series([i \in 1..Len(delta) |-> IF FGt(delta[i], F(0)) THEN delta[i] ELSE F(0)])

\* -delta.where(delta < 0, 0.0)
Losses(delta) ==
    Series([i \in 1..Len(delta) |->
        IF FLt(delta[i], F(0)) THEN F(-V(delta[i])) ELSE F(0)])

\* loss.replace(0, np.nan)
ReplaceZero(xs) == Series([i \in 1..Len(xs) |-> IF xs[i] = F(0) THEN NaN ELSE xs[i]])

\* 100 - (100 / (1 + rs))
RsiOf(rs) ==
    IF IsNaN(rs) THEN NaN
    ELSE F(100 * Scale - ((100 * Scale * Scale) \div (Scale + V(rs))))

\* rsi before the final bfill
RsiRaw(close, period) ==
    LET delta == Diff(close)
        gain  == RollingMean(Gains(delta), period)
        loss  == ReplaceZero(RollingMean(Losses(delta), period))
    IN  Series([i \in 1..Len(close) |-> RsiOf(FDiv(gain[i], loss[i]))])

\* faulty variant: a window without losses gives the conventional RSI of 100
RsiSaturating(close, period) ==
    LET delta == Diff(close)
        gain  == RollingMean(Gains(delta), period)
        loss  == RollingMean(Losses(delta), period)
    IN  Bfill(Series([i \in 1..Len(close) |->
                 IF IsNaN(loss[i]) THEN NaN
                 ELSE IF loss[i] = F(0) THEN F(100 * Scale)
                 ELSE RsiOf(FDiv(gain[i], loss[i]))]))

\* faulty variant: the two averages swapped, which leaves the range
RsiUnbounded(close, period) ==
    LET delta == Diff(close)
        gain  == RollingMean(Gains(delta), period)
        loss  == ReplaceZero(RollingMean(Losses(delta), period))
    IN  Bfill(Series([i \in 1..Len(close) |->
                 IF IsNaN(gain[i]) \/ IsNaN(loss[i]) THEN NaN
                 ELSE F(100 * Scale + V(FDiv(gain[i], loss[i])))]))

rsi(close, period) == Bfill(RsiRaw(close, period))

macd(close, fast, slow, signal) ==
    LET ef          == ema(close, fast)
        es          == ema(close, slow)
        macd_line   == Series([i \in 1..Len(close) |-> FSub(ef[i], es[i])])
        signal_line == ema(macd_line, signal)
        hist        == Series([i \in 1..Len(close) |->
                                  FSub(macd_line[i], signal_line[i])])
    IN  [macd_line |-> macd_line, signal_line |-> signal_line, hist |-> hist]

\* tr: the row-wise maximum of the three ranges, NaN entries skipped
TrueRange(frame) ==
    LET high       == Column(frame, "High")
        low        == Column(frame, "Low")
        prev_close == Shift1(Column(frame, "Close"))
    IN  Series([i \in 1..Len(frame) |->
            RowMax(<<FSub(high[i], low[i]),
                     FAbs(FSub(high[i], prev_close[i])),
                     FAbs(FSub(low[i], prev_close[i]))>>)])

atr(frame, period) == Bfill(RollingMean(TrueRange(frame), period))

enrich_indicators(frame) ==
    LET close == Column(frame, "Close")
        ma20  == RollingMean(close, MaFast)
        ma50  == RollingMean(close, MaSlow)
        rsi14 == rsi(close, RsiPeriod)
        m     == macd(close, MacdFast, MacdSlow, MacdSignal)
        atr14 == atr(frame, AtrPeriod)
    IN  Series([i \in 1..Len(frame) |->
            [Open       |-> frame[i].Open,
             High       |-> frame[i].High,
             Low        |-> frame[i].Low,
             Close      |-> frame[i].Close,
             MA20       |-> ma20[i],
             MA50       |-> ma50[i],
             RSI14      |-> rsi14[i],
             MACD       |-> m.macd_line[i],
             MACDSignal |-> m.signal_line[i],
             MACDHist   |-> m.hist[i],
             ATR14      |-> atr14[i]]])

----------------------------------------------------------------------------
(* str operations *)

UpperChars ==
    <<"A", "B", "C", "D", "E", "F", "G", "H", "I", "J", "K", "L", "M", "N", "O", "P",
      "Q", "R", "S", "T", "U", "V", "W", "X", "Y", "Z">>

LowerChars ==
    <<"a", "b", "c", "d", "e", "f", "g", "h", "i", "j", "k", "l", "m", "n", "o", "p",
      "q", "r", "s", "t", "u", "v", "w", "x", "y", "z">>

Whitespace == {" ", "\t", "\n"}

\* str.lower()
Lower(t) ==
    Series([i \in 1..Len(t) |->
        IF \E u \in 1..Len(UpperChars) : UpperChars[u] = t[i]
        THEN LowerChars[CHOOSE u \in 1..Len(UpperChars) : UpperChars[u] = t[i]]
        ELSE t[i]])

\* k in t: k occurs as a contiguous substring of t
Contains(t, k) ==
    \E i \in 0..(Len(t) - Len(k)) : \A j \in 1..Len(k) : t[i + j] = k[j]

RECURSIVE CollapseFrom(_, _, _)
CollapseFrom(t, i, acc) ==
    IF i > Len(t) THEN acc
    ELSE IF t[i] \in Whitespace
         THEN CollapseFrom(t, i + 1,
                  IF Len(acc) > 0 /\ acc[Len(acc)] = " " THEN acc ELSE Append(acc, " "))
         ELSE CollapseFrom(t, i + 1, Append(acc, t[i]))

\* str.strip() of a text whose whitespace runs are single blanks
Strip(t) ==
    LET a == IF Len(t) > 0 /\ t[1] = " " THEN 2 ELSE 1
        b == IF Len(t) > 0 /\ t[Len(t)] = " " THEN Len(t) - 1 ELSE Len(t)
    IN  IF a > b THEN <<>> ELSE SubSeq(t, a, b)

\* None, and the value dict.get returns for an absent key without a default
None == <<"<None>">>

\* _clean: "" for None or "", otherwise re.sub(r"\s+", " ", text).strip()
Clean(text) ==
    IF text = None \/ text = <<>> THEN <<>>
    ELSE Strip(CollapseFrom(text, 1, <<>>))

\* d.get(key, default)
Get(d, key, default) == IF key \in DOMAIN d THEN d[key] ELSE default

----------------------------------------------------------------------------
(* build_report.py: traffic_light_logic *)

neg_kw ==
    << <<"h", "a", "w", "k", "i", "s", "h">>,
       <<"r", "a", "t", "e", " ", "h", "i", "k", "e">>,
       <<"h", "i", "g", "h", "e", "r", " ", "y", "i", "e", "l", "d", "s">>,
       <<"s", "t", "r", "o", "n", "g", " ", "d", "o", "l", "l", "a", "r">>,
       <<"u", "s", "d", " ", "r", "i", "s", "e", "s">>,
       <<"r", "i", "s", "k", "-", "o", "n">> >>

pos_kw ==
    << <<"d", "o", "v", "i", "s", "h">>,
       <<"r", "a", "t", "e", " ", "c", "u", "t">>,
       <<"r", "e", "c", "e", "s", "s", "i", "o", "n">>,
       <<"g", "e", "o", "p", "o", "l", "i", "t", "i", "c", "a", "l">>,
       <<"s", "a", "f", "e", " ", "h", "a", "v", "e", "n">>,
       <<"i", "n", "f", "l", "a", "t", "i", "o", "n">>,
       <<"w", "a", "r">>,
       <<"c", "o", "n", "f", "l", "i", "c", "t">> >>

\* faulty variant: stop at the first keyword that matches
HitsFirstOnly(t, kws, i) == IF \E j \in i..Len(kws) : Contains(t, kws[j]) THEN 1 ELSE 0

\* for k in kws: if k in t: hits += 1
RECURSIVE Hits(_, _, _)
Hits(t, kws, i) ==
    IF i > Len(kws) THEN 0
    ELSE (IF Contains(t, kws[i]) THEN 1 ELSE 0) + Hits(t, kws, i + 1)

\* one pass of the loop body: t = (n.get("title") or "").lower(), then both scans
ItemScore(n) ==
    LET raw == Get(n, "title", None)
        t   == Lower(IF raw = None \/ raw = <<>> THEN <<>> ELSE raw)
    IN  Hits(t, pos_kw, 1) - Hits(t, neg_kw, 1)

\* score = 0; for n in news_items: ...
RECURSIVE NewsScore(_, _)
NewsScore(news_items, i) ==
    IF i > Len(news_items) THEN 0
    ELSE ItemScore(news_items[i]) + NewsScore(news_items, i + 1)

\* what a call leaves behind when it raises
Raised(exc) ==
    [tl |-> "", score |-> 0, trend |-> "", momentum |-> "", volatility |-> "",
     macro |-> "", error |-> exc]

NoResult == Raised("")

\* faulty variant: an undefined MA50 defaults to 0.0 like the other indicators
OrDefaultZero(last, name, default) ==
    IF IsNaN(Get(last, name, NaN))
    THEN (IF name = "MA50" THEN F(0) ELSE default)
    ELSE Get(last, name, NaN)

\* float(last.get(name, np.nan)) if not pd.isna(last.get(name, np.nan)) else default
OrDefault(last, name, default) ==
    IF IsNaN(Get(last, name, NaN)) THEN default ELSE Get(last, name, NaN)

\* faulty variant: the second comparison is written the wrong way round
TrendUpCrossed(close, ma20, ma50) == FGt(close, ma20) /\ FGt(ma50, ma20)

\* close > ma20 > ma50
TrendUp(close, ma20, ma50) == FGt(close, ma20) /\ FGt(ma20, ma50)

\* close < ma20 < ma50
TrendDown(close, ma20, ma50) == FLt(close, ma20) /\ FLt(ma20, ma50)

\* (rsi14 >= 55) and (macd_hist > 0)
MomentumUp(rsi14, macd_hist) == FGe(rsi14, F(55 * Scale)) /\ FGt(macd_hist, F(0))

\* (rsi14 <= 45) and (macd_hist < 0)
MomentumDown(rsi14, macd_hist) == FLe(rsi14, F(45 * Scale)) /\ FLt(macd_hist, F(0))

\* faulty variant: the news gate is strict, so a score of 0 no longer gives GREEN or RED
VerdictStrictGate(trend_up, trend_down, momentum_up, momentum_down, score) ==
    IF trend_up /\ momentum_up /\ score > 0 THEN "GREEN"
    ELSE IF trend_down /\ momentum_down /\ score < 0 THEN "RED"
    ELSE "NEUTRAL"

\* the if / elif / else that sets tl
Verdict(trend_up, trend_down, momentum_up, momentum_down, score) ==
    IF trend_up /\ momentum_up /\ score >= 0 THEN "GREEN"
    ELSE IF trend_down /\ momentum_down /\ score <= 0 THEN "RED"
    ELSE "NEUTRAL"

\* atr_mean_50: the 50-row rolling mean of the ATR14 column at the last row when
\* the column exists and the frame has at least 50 rows, else atr14 itself
AtrMean50(frame, atr14) ==
    IF "ATR14" \in DOMAIN frame[Len(frame)] /\ Len(frame) >= MaSlow
    THEN RollingMean(Column(frame, "ATR14"), MaSlow)[Len(frame)]
    ELSE atr14

traffic_light_logic(frame, news_items) ==
    IF Len(frame) = 0 THEN Raised("IndexError")   \* df.iloc[-1] on an empty frame
    ELSE
    LET last          == frame[Len(frame)]
        close         == last.Close
        ma20          == OrDefault(last, "MA20", close)
        ma50          == OrDefault(last, "MA50", close)
        rsi14         == OrDefault(last, "RSI14", F(50 * Scale))
        macd_hist     == OrDefault(last, "MACDHist", F(0))
        atr14         == OrDefault(last, "ATR14", F(0))
        trend_up      == TrendUp(close, ma20, ma50)
        trend_down    == TrendDown(close, ma20, ma50)
        momentum_up   == MomentumUp(rsi14, macd_hist)
        momentum_down == MomentumDown(rsi14, macd_hist)
        score         == NewsScore(news_items, 1)
        atr_mean_50   == AtrMean50(frame, atr14)
    IN  [tl         |-> Verdict(trend_up, trend_down, momentum_up, momentum_down, score),
         score      |-> score,
         trend      |-> IF trend_up THEN "Bullish"
                        ELSE IF trend_down THEN "Bearish" ELSE "Mixed",
         momentum   |-> IF momentum_up THEN "Bullish"
                        ELSE IF momentum_down THEN "Bearish" ELSE "Mixed",
         volatility |-> IF FGt(atr14, atr_mean_50) THEN "High" ELSE "Normal",
         macro      |-> IF score > 0 THEN "Supportive"
                        ELSE IF score < 0 THEN "Headwind" ELSE "Neutral",
         error      |-> ""]

----------------------------------------------------------------------------
(* Inputs: headlines *)

TitleDovish ==
    <<"F", "e", "d", " ", "t", "u", "r", "n", "s", " ", "d", "o", "v", "i", "s", "h",
      " ", "a", "m", "i", "d", " ", "r", "e", "c", "e", "s", "s", "i", "o", "n", " ",
      "f", "e", "a", "r", "s">>

TitleHawkish ==
    <<"H", "a", "w", "k", "i", "s", "h", " ", "F", "e", "d", " ", "s", "p", "a", "r",
      "k", "s", " ", "r", "a", "t", "e", " ", "h", "i", "k", "e", " ", "b", "e", "t",
      "s", ",", " ", "s", "t", "r", "o", "n", "g", " ", "d", "o", "l", "l", "a", "r",
      " ", "r", "i", "s", "e", "s">>

TitleForward ==
    <<"G", "o", "l", "d", " ", "m", "o", "v", "e", "s", " ", "f", "o", "r", "w", "a",
      "r", "d">>

TitleWarWar ==
    <<"W", "A", "R", " ", "w", "a", "r">>

TitlePlain ==
    <<"G", "o", "l", "d", " ", "s", "t", "e", "a", "d", "y">>

TitleRiskOn ==
    <<"R", "i", "s", "k", "-", "O", "n">>

RawWar ==
    <<" ", "W", "a", "r">>

RawWarTail ==
    <<"W", "a", "r", " ">>

RawBlank ==
    <<" ">>

Item(title, url) == [source |-> "feed", title |-> title, url |-> url]

\* news lists with a negative, a zero and a positive score
SignNews ==
    { <<>>, <<Item(TitleWarWar, "u")>>, <<Item(TitleRiskOn, "u")>> }

\* headlines that exercise the scan: several keywords in one title, a keyword
\* inside a longer word, upper case, a missing title
ScoredTitles ==
    { TitleDovish, TitleHawkish, TitleForward, TitleWarWar, TitlePlain, <<>>, None }

ScoredItems ==
    { Item(t, "u") : t \in ScoredTitles } \cup { [source |-> "feed", url |-> "u"] }

TitleNews ==
    { <<>> } \cup { <<a>> : a \in ScoredItems } \cup { <<a, b>> : a, b \in ScoredItems }

----------------------------------------------------------------------------
(* Inputs: price rows *)

Price(c) == F(c * Scale)

\* a row that closes at c after a move of d, with wicks h above and l below
Row(c, d, h, l) ==
    [Open  |-> Price(c - d),
     High  |-> Price(Max2(c, c - d) + h),
     Low   |-> Price((IF d >= 0 THEN c - d ELSE c) - l),
     Close |-> Price(c)]

\* the daily moves a block of rows repeats
Shapes ==
    { [d |-> 1, h |-> 0, l |-> 0],
      [d |-> 2, h |-> 1, l |-> 0],
      [d |-> -1, h |-> 0, l |-> 1],
      [d |-> 0, h |-> 0, l |-> 0] }

RunLens == {1, 13, 36}

LastClose(frame) ==
    IF Len(frame) = 0 THEN BasePrice ELSE V(frame[Len(frame)].Close) \div Scale

Block(frame, shape, n) ==
    Series([k \in 1..n |->
        Row(LastClose(frame) + k * shape.d, shape.d, shape.h, shape.l)])

----------------------------------------------------------------------------
(* The indicator engine and the classifier on delivered series *)

InitRest ==
    /\ runs = 0
    /\ source = ""
    /\ log = <<>>
    /\ feed = 0
    /\ items = <<>>
    /\ path = ""
    /\ news = <<>>
    /\ result = NoResult
    /\ error = ""

InitSeries ==
    /\ pc = "input"
    /\ df = <<>>
    /\ enriched = <<>>
    /\ limit = 1
    /\ InitRest

\* the price provider delivers one more block of rows
AppendRun ==
    /\ pc = "input"
    /\ runs < MaxRuns
    /\ \E shape \in Shapes, n \in RunLens :
          /\ Len(df) + n <= MaxLen
          /\ df' = df \o Block(df, shape, n)
    /\ runs' = runs + 1
    /\ UNCHANGED <<pc, source, log, enriched, limit, feed, items, path, news, result, error>>

\* df = enrich_indicators(df)
CallEnrich ==
    /\ pc = "input"
    /\ Len(df) > 0
    /\ enriched' = enrich_indicators(df)
    /\ pc' = "enriched"
    /\ UNCHANGED <<df, runs, source, log, limit, feed, items, path, news, result, error>>

\* traffic_light_logic(df, news_items) with news_items drawn from pool
CallTrafficLight(pool) ==
    /\ pc = "enriched"
    /\ \E n \in pool :
          /\ news' = n
          /\ result' = traffic_light_logic(enriched, n)
    /\ path' = "arg"
    /\ pc' = "returned"
    /\ error' = result'.error
    /\ UNCHANGED <<df, runs, source, log, enriched, limit, feed, items>>

NextSeries ==
    \/ AppendRun
    \/ CallEnrich
    \/ CallTrafficLight(SignNews)

SpecSeries == InitSeries /\ [][NextSeries]_vars

----------------------------------------------------------------------------
(* The classifier on arbitrary last rows *)

MaChoices == {NaN} \cup {Price(c) : c \in (BasePrice - 2)..(BasePrice + 2)}

RsiChoices ==
    {NaN, F(44 * Scale), F(45 * Scale), F(45 * Scale + 1), F(50 * Scale),
     F(55 * Scale - 1), F(55 * Scale), F(56 * Scale)}

HistChoices == {NaN, F(-1), F(0), F(1)}

LastRows ==
    [Close : {Price(BasePrice)}, MA20 : MaChoices, MA50 : MaChoices,
     RSI14 : RsiChoices, MACDHist : HistChoices, ATR14 : {NaN, Price(1)}]

\* rows whose score is taken over the full set of headlines: one with trend and
\* momentum up, one with every indicator undefined, one without indicator columns
ProbeRows ==
    { [Close |-> Price(BasePrice), MA20 |-> Price(BasePrice - 1),
       MA50 |-> Price(BasePrice - 2), RSI14 |-> F(55 * Scale), MACDHist |-> F(1),
       ATR14 |-> Price(1)],
      [Close |-> Price(BasePrice), MA20 |-> NaN, MA50 |-> NaN, RSI14 |-> NaN,
       MACDHist |-> NaN, ATR14 |-> NaN],
      [Close |-> Price(BasePrice)] }

TLPool(frame) ==
    IF Len(frame) = 1 /\ frame[1] \in ProbeRows THEN TitleNews ELSE SignNews

InitTL ==
    /\ pc = "enriched"
    /\ df = <<>>
    /\ enriched \in {<<>>} \cup {<<r>> : r \in LastRows \cup ProbeRows}
    /\ limit = 1
    /\ InitRest

NextTL == CallTrafficLight(TLPool(enriched))

SpecTL == InitTL /\ [][NextTL]_vars

----------------------------------------------------------------------------
(* news.py *)

\* xs[:n] for n >= 0
Take(xs, n) == IF Len(xs) <= n THEN xs ELSE SubSeq(xs, 1, n)

\* the item built from one RSS entry or one NewsAPI article
ItemOf(raw, name) ==
    [source |-> name, title |-> Clean(Get(raw, "title", <<>>)), url |-> raw.url]

ItemsOf(raws, name) == Series([i \in 1..Len(raws) |-> ItemOf(raws[i], name)])

RECURSIVE DedupFrom(_, _, _, _)
DedupFrom(xs, i, seen, out) ==
    IF i > Len(xs) THEN out
    ELSE LET k == <<xs[i].title, xs[i].url>>
         IN  IF k \in seen \/ xs[i].title = <<>>
             THEN DedupFrom(xs, i + 1, seen, out)
             ELSE DedupFrom(xs, i + 1, seen \cup {k}, Append(out, xs[i]))

\* fetch_news_rss, after the feeds: drop repeated (title, url) pairs and empty
\* titles, keep the first `lim`
RssResult(xs, lim) == Take(DedupFrom(xs, 1, {}, <<>>), lim)

\* fetch_news_newsapi, after the request: one item per article of articles[:limit]
NewsApiResult(articles, lim) == ItemsOf(Take(articles, lim), "NewsAPI")

----------------------------------------------------------------------------
(* Inputs: what the price and news services answer *)

NullOpenRow(c) == [Open |-> NaN, High |-> Price(c + 1), Low |-> Price(c - 1), Close |-> Price(c)]

NullCloseRow(c) == [Open |-> Price(c), High |-> Price(c + 1), Low |-> Price(c - 1), Close |-> NaN]

FrameOne == <<Row(BasePrice, 1, 1, 1)>>

FrameGaps == <<Row(BasePrice, 1, 1, 1), NullOpenRow(BasePrice + 1), Row(BasePrice + 2, 1, 0, 1)>>

FrameAllNull == <<NullCloseRow(BasePrice), NullOpenRow(BasePrice)>>

Answer(kind, frame) == [kind |-> kind, frame |-> frame]

\* yf.download raises, returns None, or returns a frame
YfinanceAnswers ==
    { Answer("raise", <<>>), Answer("none", <<>>), Answer("frame", <<>>),
      Answer("frame", FrameOne), Answer("frame", FrameAllNull) }

\* _download_stooq raises (request, status, parsing) or returns a frame
StooqAnswers ==
    { Answer("raise", <<>>), Answer("frame", <<>>),
      Answer("frame", FrameGaps), Answer("frame", FrameAllNull) }

RawEntry(title, url) == [title |-> title, url |-> url]

RawEntries ==
    { RawEntry(RawWar, "u"), RawEntry(RawWarTail, "u"), RawEntry(RawWarTail, "v"),
      RawEntry(RawBlank, "u"), [url |-> "u"] }

RECURSIVE Lists(_, _)
\* the lists of at most n elements of S
Lists(S, n) ==
    IF n = 0 THEN {<<>>}
    ELSE LET shorter == Lists(S, n - 1)
         IN  shorter \cup {Append(xs, x) : xs \in shorter, x \in S}

EntryLists == Lists(RawEntries, MaxEntries)

----------------------------------------------------------------------------
(* build_report.py: download_prices and main *)

Logged(op, what) == log' = Append(log, <<op, what>>)

\* what a source call is logged as: how it ended, and whether its frame had rows
AnswerKind(o) ==
    IF o.kind = "frame" THEN (IF Len(o.frame) > 0 THEN "rows" ELSE "empty") ELSE o.kind

\* faulty variant: the emptiness test is forgotten
UsableNotNone(o) == o.kind = "frame"

\* df is not None and not df.empty, with no exception raised
Usable(o) == o.kind = "frame" /\ Len(o.frame) > 0

\* df.dropna(subset=["Open", "High", "Low", "Close"])
DropNa(frame) ==
    SelectSeq(frame, LAMBDA r : \A c \in {"Open", "High", "Low", "Close"} : ~IsNaN(r[c]))

\* NEWS_LIMIT comes from the environment
InitMain ==
    /\ pc = "main"
    /\ df = <<>>
    /\ enriched = <<>>
    /\ limit \in 1..MaxLimit
    /\ InitRest

\* main up to the download: os.makedirs(OUT_DIR, exist_ok=True)
MainStart ==
    /\ pc = "main"
    /\ Logged("makedirs", "")
    /\ pc' = "yfinance"
    /\ UNCHANGED <<df, runs, source, enriched, limit, feed, items, path, news, result, error>>

\* download_prices, step 1: try yfinance, return on a usable frame
TryYfinance ==
    /\ pc = "yfinance"
    /\ \E o \in YfinanceAnswers :
          /\ Logged("yfinance", AnswerKind(o))
          /\ IF Usable(o)
             THEN df' = o.frame /\ source' = "yfinance" /\ pc' = "downloaded"
             ELSE UNCHANGED <<df, source>> /\ pc' = "stooq"
    /\ UNCHANGED <<runs, enriched, limit, feed, items, path, news, result, error>>

\* download_prices, step 2: fall back to Stooq, else (empty frame, "none")
TryStooq ==
    /\ pc = "stooq"
    /\ \E o \in StooqAnswers :
          /\ Logged("stooq", AnswerKind(o))
          /\ IF Usable(o)
             THEN df' = o.frame /\ source' = "stooq(xauusd)"
             ELSE df' = <<>> /\ source' = "none"
    /\ pc' = "downloaded"
    /\ UNCHANGED <<runs, enriched, limit, feed, items, path, news, result, error>>

\* main: the two emptiness checks around dropna
MainClean ==
    /\ pc = "downloaded"
    /\ IF Len(df) = 0
       THEN /\ error' = "RuntimeError"
            /\ pc' = "crashed"
            /\ UNCHANGED df
       ELSE /\ df' = DropNa(df)
            /\ IF Len(df') = 0
               THEN error' = "RuntimeError" /\ pc' = "crashed"
               ELSE UNCHANGED error /\ pc' = "cleaned"
    /\ UNCHANGED <<runs, source, log, enriched, limit, feed, items, path, news, result>>

\* main: df = enrich_indicators(df)
MainEnrich ==
    /\ pc = "cleaned"
    /\ enriched' = enrich_indicators(df)
    /\ Logged("enrich", "")
    /\ pc' = "newsapi"
    /\ UNCHANGED <<df, runs, source, limit, feed, items, path, news, result, error>>

\* fetch_news, first half: fetch_news_newsapi returns [] without a key, raises
\* when the request fails, else returns its items; a non-empty list is the result
FetchNewsApi ==
    /\ pc = "newsapi"
    /\ Logged("fetch_news", "")
    /\ \/ /\ pc' = "rss"                       \* no NEWSAPI_KEY
          /\ feed' = 1
          /\ UNCHANGED <<path, news, error>>
       \/ /\ pc' = "crashed"                   \* requests.get / raise_for_status / json
          /\ error' = "RequestException"
          /\ UNCHANGED <<feed, path, news>>
       \/ \E articles \in EntryLists :
             LET out == NewsApiResult(articles, limit)
             IN  IF Len(out) > 0
                 THEN /\ news' = out
                      /\ path' = "newsapi"
                      /\ pc' = "classify"
                      /\ UNCHANGED <<feed, error>>
                 ELSE /\ pc' = "rss"
                      /\ feed' = 1
                      /\ UNCHANGED <<path, news, error>>
    /\ UNCHANGED <<df, runs, source, enriched, limit, items, result>>

Feeds == 3

\* fetch_news_rss: one turn of the loop over the feeds (an exception inside the
\* turn keeps the items appended before it); after the last feed, the result
FetchRssFeed ==
    /\ pc = "rss"
    /\ feed <= Feeds
    /\ \E entries \in EntryLists :
          LET got == items \o ItemsOf(Take(entries, limit), "feed")
          IN  /\ items' = got
              /\ IF feed = Feeds
                 THEN /\ news' = RssResult(got, limit)
                      /\ path' = "rss"
                      /\ pc' = "classify"
                 ELSE UNCHANGED <<news, path, pc>>
    /\ feed' = feed + 1
    /\ UNCHANGED <<df, runs, source, log, enriched, limit, result, error>>

\* main: the analysis
MainTrafficLight ==
    /\ pc = "classify"
    /\ result' = traffic_light_logic(enriched, news)
    /\ error' = result'.error
    /\ pc' = IF result'.error = "" THEN "write" ELSE "crashed"
    /\ UNCHANGED <<df, runs, source, log, enriched, limit, feed, items, path, news>>

\* main: gold_data.json, then index.html
MainWrite ==
    /\ pc = "write"
    /\ log' = log \o << <<"write", "gold_data.json">>, <<"write", "index.html">> >>
    /\ pc' = "done"
    /\ UNCHANGED <<df, runs, source, enriched, limit, feed, items, path, news, result, error>>

NextMain ==
    \/ MainStart
    \/ TryYfinance
    \/ TryStooq
    \/ MainClean
    \/ MainEnrich
    \/ FetchNewsApi
    \/ FetchRssFeed
    \/ MainTrafficLight
    \/ MainWrite

SpecMain == InitMain /\ [][NextMain]_vars

----------------------------------------------------------------------------
(* Claims about the classifier *)

Returned == pc = "returned" /\ result.error = ""

LastRow == enriched[Len(enriched)]

\* the value the classifier works with: the column's, or the default when the
\* column is absent or undefined
Defaulted(name, default) ==
    IF name \in DOMAIN LastRow /\ LastRow[name] # NaN THEN V(LastRow[name]) ELSE default

UpPair ==
    LET c == V(LastRow.Close)
    IN  /\ c > Defaulted("MA20", c)
        /\ Defaulted("MA20", c) > Defaulted("MA50", c)
        /\ Defaulted("RSI14", 50 * Scale) >= 55 * Scale
        /\ Defaulted("MACDHist", 0) > 0

DownPair ==
    LET c == V(LastRow.Close)
    IN  /\ c < Defaulted("MA20", c)
        /\ Defaulted("MA20", c) < Defaulted("MA50", c)
        /\ Defaulted("RSI14", 50 * Scale) <= 45 * Scale
        /\ Defaulted("MACDHist", 0) < 0

\* C1: the verdict is GREEN exactly when close > MA20 > MA50, RSI14 >= 55,
\* MACDHist > 0 and score >= 0; otherwise RED exactly when close < MA20 < MA50,
\* RSI14 <= 45, MACDHist < 0 and score <= 0; otherwise NEUTRAL
C1_VerdictTable ==
    Returned =>
        result.tl = (IF UpPair /\ result.score >= 0 THEN "GREEN"
                     ELSE IF DownPair /\ result.score <= 0 THEN "RED"
                     ELSE "NEUTRAL")

C1_Witness ==
    /\ Returned
    /\ UpPair
    /\ result.score = 0
    /\ result.tl = "GREEN"

\* the titles' keyword counts, by sets: the keywords of kws that occur in t
Occurring(t, kws) == Cardinality({k \in 1..Len(kws) : Contains(Lower(t), kws[k])})

TitleOf(n) == IF "title" \in DOMAIN n /\ n.title # None THEN n.title ELSE <<>>

RECURSIVE ExpectedScore(_)
ExpectedScore(ns) ==
    IF ns = <<>> THEN 0
    ELSE Occurring(TitleOf(Head(ns)), pos_kw) - Occurring(TitleOf(Head(ns)), neg_kw)
         + ExpectedScore(Tail(ns))

Titles(ns) == [i \in 1..Len(ns) |-> TitleOf(ns[i])]

\* C2: the score is the sum over all items of the number of positive keywords
\* in the lower-cased title minus the number of negative ones; a missing or
\* empty title adds 0; the two example headlines score +2 and -3, together -1
C2_ScoreIsKeywordSum ==
    Returned =>
        /\ result.score = ExpectedScore(news)
        /\ (\A i \in 1..Len(news) : TitleOf(news[i]) = <<>>) => result.score = 0
        /\ Titles(news) = <<TitleDovish>> => result.score = 2
        /\ Titles(news) = <<TitleHawkish>> => result.score = -3
        /\ Titles(news) = <<TitleDovish, TitleHawkish>> => result.score = -1

C2_Witness ==
    /\ Returned
    /\ Titles(news) = <<TitleHawkish, TitleDovish>>
    /\ result.score = -1

GenericCrashes == {"IndexError", "KeyError", "TypeError", "ValueError", "AttributeError"}

\* C3: called with an empty price series, the classifier neither returns a
\* verdict nor ends in a generic crash: it signals a precondition violation
C3_EmptySeriesSignalled ==
    (pc = "returned" /\ Len(enriched) = 0) =>
        /\ result.tl = ""
        /\ result.error # ""
        /\ result.error \notin GenericCrashes

----------------------------------------------------------------------------
(* Claims about the indicator engine *)

Rows == Len(df)

CloseAt(k) == V(df[k].Close)

\* the close-to-close change that ends at row k is a decline
Decline(k) == k >= 2 /\ CloseAt(k) < CloseAt(k - 1)

\* the 14 changes that end at row j contain a decline
DeclineInWindow(j) == \E k \in (j - RsiPeriod + 1)..j : Decline(k)

HasPriceChange == \E k \in 2..Rows : CloseAt(k) # CloseAt(k - 1)

StrictlyIncreasing == \A k \in 2..Rows : CloseAt(k) > CloseAt(k - 1)

SameAt(a, b, i, cols) == \A c \in cols : a[i][c] = b[i][c]

\* the columns agree at row i wherever a's entry is defined
SameWhereDefined(a, b, i, cols) == \A c \in cols : IsNaN(a[i][c]) \/ a[i][c] = b[i][c]

WindowColumns == {"MA20", "MA50", "MACD", "MACDSignal", "MACDHist"}

FilledColumns == {"RSI14", "ATR14"}

Causal(a, b) == \A i \in 1..Len(a) : SameAt(a, b, i, WindowColumns \cup FilledColumns)

CausalWhereDefined(a, b) ==
    \A i \in 1..Len(a) :
        SameAt(a, b, i, WindowColumns) /\ SameWhereDefined(a, b, i, FilledColumns)

\* C4 as claimed: a series and any series that extends it have the same seven
\* indicator values at every index of the shorter one, back-filled values included
C4_CausalEverywhere ==
    [][pc = "input" =>
          \A a \in {enrich_indicators(df)}, b \in {enrich_indicators(df')} :
              Causal(a, b)]_vars

\* C4 as amended: a series and any series that extends it have the same MA20,
\* MA50, MACD, MACDSignal and MACDHist at every index of the shorter one, and
\* the same RSI14 and ATR14 wherever the shorter one's value is defined
C4_CausalWhereDefined ==
    [][pc = "input" =>
          \A a \in {enrich_indicators(df)}, b \in {enrich_indicators(df')} :
              CausalWhereDefined(a, b)]_vars

\* an extended series whose early RSI14 and ATR14 are back-filled and whose
\* later ones are computed from their own windows
C4_Witness ==
    /\ pc = "enriched"
    /\ runs >= 2
    /\ Rows >= MaSlow
    /\ enriched[1].RSI14 # NaN /\ enriched[1].ATR14 # NaN
    /\ enriched[Rows].RSI14 # NaN /\ enriched[Rows].MA50 # NaN

InRange(x) == 0 <= V(x) /\ V(x) <= 100 * Scale

\* C6 as claimed: when the series has a price change, every RSI14 entry is a
\* defined number in [0, 100]
C6_RsiDefinedInRange ==
    (pc = "enriched" /\ HasPriceChange) =>
        \A i \in 1..Rows : enriched[i].RSI14 # NaN /\ InRange(enriched[i].RSI14)

\* C6 as amended: every RSI14 entry is undefined or a number in [0, 100], and it
\* is undefined exactly when no 14-change window that ends at or after it (and
\* at row 14 or later) contains a decline
C6_RsiInRangeWhenDefined ==
    pc = "enriched" =>
        \A i \in 1..Rows :
            /\ enriched[i].RSI14 # NaN => InRange(enriched[i].RSI14)
            /\ enriched[i].RSI14 = NaN <=>
                   ~\E j \in i..Rows : j >= RsiPeriod /\ DeclineInWindow(j)

\* a series with price changes that has both defined and undefined RSI14 entries
C6_Witness ==
    /\ pc = "enriched"
    /\ HasPriceChange
    /\ enriched[1].RSI14 # NaN
    /\ enriched[Rows].RSI14 = NaN

\* C7: a strictly increasing series of at least 50 rows ends with
\* close > MA20 > MA50, and the Trend driver is "Bullish"
C7_RisingSeriesTrendsUp ==
    (Returned /\ Rows >= MaSlow /\ StrictlyIncreasing) =>
        /\ LastRow.MA20 # NaN /\ LastRow.MA50 # NaN
        /\ V(LastRow.Close) > V(LastRow.MA20)
        /\ V(LastRow.MA20) > V(LastRow.MA50)
        /\ result.trend = "Bullish"

\* a rising series of at least 50 rows whose steps are not all equal
C7_Witness ==
    /\ Returned
    /\ Rows >= MaSlow
    /\ StrictlyIncreasing
    /\ \E k \in 3..Rows : CloseAt(k) - CloseAt(k - 1) # CloseAt(2) - CloseAt(1)
    /\ result.trend = "Bullish"

\* C9: on a non-empty series of fewer than 50 rows the classifier returns,
\* the verdict is NEUTRAL, the Trend driver "Mixed", the Volatility driver "Normal"
C9_ShortSeriesNeutral ==
    (pc = "returned" /\ Rows > 0 /\ Rows < MaSlow) =>
        /\ result.error = ""
        /\ LastRow.MA50 = NaN
        /\ result.tl = "NEUTRAL"
        /\ result.trend = "Mixed"
        /\ result.volatility = "Normal"

\* a short series that has MA20 below the close and momentum up: only the
\* undefined MA50 keeps the trend from being up
C9_Witness ==
    /\ Returned
    /\ Rows >= MaFast /\ Rows < MaSlow
    /\ LastRow.MA20 # NaN /\ V(LastRow.Close) > V(LastRow.MA20)
    /\ result.momentum = "Bullish"
    /\ result.score >= 0
    /\ result.tl = "NEUTRAL"

NoDeclineInLast14 == ~DeclineInWindow(Rows)

\* C10: a GREEN verdict implies a decline among the last 14 changes; without
\* one the latest RSI14 is undefined, momentum is not up and the verdict is not GREEN
C10_GreenNeedsDecline ==
    Returned =>
        /\ result.tl = "GREEN" => DeclineInWindow(Rows)
        /\ NoDeclineInLast14 =>
              /\ LastRow.RSI14 = NaN
              /\ result.momentum # "Bullish"
              /\ result.tl # "GREEN"

C10_Witness ==
    /\ Returned
    /\ result.tl = "GREEN"
    /\ DeclineInWindow(Rows)

----------------------------------------------------------------------------
(* Claims about the run of main *)

LogHas(op, what) == \E i \in 1..Len(log) : log[i] = <<op, what>>

Did(op) == \E i \in 1..Len(log) : log[i][1] = op

NoNullRows(frame) ==
    \A i \in 1..Len(frame) : \A c \in {"Open", "High", "Low", "Close"} : frame[i][c] # NaN

BeforeClean == pc \in {"main", "yfinance", "stooq", "downloaded"}

\* C5: the list fetch_news returns has no empty title, no repeated (title, url)
\* pair and at most `limit` items, on the NewsAPI path and on the RSS path
C5_NewsListClean ==
    path \in {"newsapi", "rss"} =>
        /\ \A i \in 1..Len(news) : news[i].title # <<>>
        /\ \A i, j \in 1..Len(news) :
              (news[i].title = news[j].title /\ news[i].url = news[j].url) => i = j
        /\ Len(news) <= limit

\* C8: Stooq is contacted only after yfinance raised or returned nothing; the
\* source name tells which source delivered rows, "none" with an empty frame
\* when neither did, and no exception leaves download_prices; an empty frame,
\* before or after dropna, ends main with RuntimeError before any indicator is
\* computed, any news fetched or any file written
C8_DownloadOrderAndGuards ==
    /\ \A i \in 1..Len(log) :
          log[i][1] = "stooq" =>
              \E j \in 1..(i - 1) : log[j][1] = "yfinance" /\ log[j][2] # "rows"
    /\ pc \in {"main", "yfinance", "stooq"} => source = ""
    /\ pc = "downloaded" => source # "" /\ error = ""
    /\ source # "" =>
          /\ source \in {"yfinance", "stooq(xauusd)", "none"}
          /\ source = "yfinance" <=> LogHas("yfinance", "rows")
          /\ source = "stooq(xauusd)" <=>
                 (~LogHas("yfinance", "rows") /\ LogHas("stooq", "rows"))
          /\ source = "none" <=>
                 (Did("yfinance") /\ ~LogHas("yfinance", "rows")
                    /\ Did("stooq") /\ ~LogHas("stooq", "rows"))
          /\ pc = "downloaded" => (source = "none" <=> df = <<>>)
    /\ (~BeforeClean /\ df = <<>>) =>
          /\ pc = "crashed" /\ error = "RuntimeError"
          /\ ~Did("enrich") /\ ~Did("fetch_news") /\ ~Did("write")
          /\ enriched = <<>> /\ news = <<>> /\ result = NoResult
    /\ (Did("enrich") \/ Did("fetch_news") \/ Did("write")) =>
          /\ df # <<>>
          /\ NoNullRows(df)

\* yfinance raised, Stooq delivered rows that all had a null price, main stopped
C8_Witness ==
    /\ pc = "crashed"
    /\ error = "RuntimeError"
    /\ LogHas("yfinance", "raise")
    /\ source = "stooq(xauusd)"
    /\ df = <<>>
    /\ ~Did("enrich")

====
